---- MODULE Spec2Model ----
(***************************************************************************)
(* Mowndark backend: the note store (MongoDB collection "notes" with its   *)
(* unique indexes), the Note model's static methods and the HTTP handlers  *)
(* of routes/notes.py, as a state machine.  One action per handler; what a *)
(* handler answers and what it leaves in the store is an operator of the   *)
(* store and the request (<handler>_response), which the action applies.   *)
(***************************************************************************)
EXTENDS Integers, Sequences, FiniteSets, TLC

VARIABLES
    notes,      \* the notes collection: ObjectId (a number) -> document
    next_oid,   \* the next ObjectId the driver hands out (ObjectIds are never reused)
    pending,    \* update_note calls between the read of the note and Note.update's write
    history,    \* the users collection: user -> the 'history' array of the document
    adding,     \* add_to_history calls between their $pull and their $push
    clock,      \* datetime.utcnow()
    call,       \* the arguments of a call of a function of the Note model
    returned    \* what the call returned: << >> before it returns, <<value>> after

note_vars == <<notes, next_oid>>
update_vars == <<pending>>
user_vars == <<history, adding, clock>>
call_vars == <<call, returned>>

vars == <<notes, next_oid, pending, history, adding, clock, call, returned>>

----------------------------------------------------------------------------
(* Bounds *)

MaxNotes == 2       \* documents ever inserted
MaxViews == 1       \* sum of all view_count values
MaxAdds == 3        \* add_to_history calls ever begun
MaxTextLen == 4     \* characters of a content given to generate_description
MaxLimit == 3       \* the greatest max_length given to generate_description
MaxTokens == 3      \* tokens of a content given to render_html

----------------------------------------------------------------------------
(* Values *)

None == "<None>"        \* Python None / JSON null
NoNote == 0             \* find_one(...) found nothing (None in place of a document)

Users == {"u1", "u2"}               \* JWT identities
Actors == Users \cup {None}         \* get_optional_user_id()

PERMISSION_TYPES == {"freely", "editable", "limited", "locked", "protected", "private"}
BogusPermission == "admin"          \* a body value that is no permission type

\* str(ObjectId): 24 hexadecimal characters, one per ObjectId the model uses.
OidStrings == <<"65a000000000000000000001", "65a000000000000000000002",
                "65a000000000000000000003", "65a000000000000000000004",
                "65a000000000000000000005">>

\* shortuuid.uuid()[:10]: ten characters of the shortuuid alphabet.
ShortIdStrings == <<"Zk3mVw8QpT", "h7GfR2xYbN", "Qw9ErT5yUi", "c4DsA6fGhJ", "Pm6LnK8jHg">>
ShortIds == {ShortIdStrings[i] : i \in 1..MaxNotes}

PlainAlias == "my-note"
Malformed == "not-an-id"

\* alias values a request body carries: null, a string that is also a short
\* id, a string that is also the text of an ObjectId.
AliasInputs == {None, ShortIdStrings[1], OidStrings[1]}

----------------------------------------------------------------------------
(* Text: a string is a sequence of characters, a content is a sequence of lines *)

Untitled == <<"U", "n", "t", "i", "t", "l", "e", "d">>
Placeholder == <<"S", "t", "a", "r", "t", " ", "w", "r", "i", "t", "i", "n", "g", " ",
                 "y", "o", "u", "r", " ", "m", "a", "r", "k", "d", "o", "w", "n", " ",
                 "h", "e", "r", "e", ".", ".", ".">>

EmptyContent == << << >> >>       \* ''.split('\n') is one empty line
ContentHeading == << <<"i", "n", "t", "r", "o">>, <<"#", " ", "B", " ">>, <<"#", " ", "A">> >>

Whitespace == {" ", "\t", "\n", "\r"}

RECURSIVE lstrip(_)
lstrip(s) == IF s # << >> /\ Head(s) \in Whitespace THEN lstrip(Tail(s)) ELSE s

RECURSIVE rstrip(_)
rstrip(s) ==
    IF s # << >> /\ s[Len(s)] \in Whitespace THEN rstrip(SubSeq(s, 1, Len(s) - 1)) ELSE s

strip(s) == rstrip(lstrip(s))

startswith_heading(line) == Len(line) >= 2 /\ line[1] = "#" /\ line[2] = " "

\* the loop without its break: the last heading line gives the title
RECURSIVE extract_title_no_break(_, _)
extract_title_no_break(lines, update_data) ==
    IF lines = << >> THEN update_data
    ELSE IF startswith_heading(lines[Len(lines)])
         THEN ("title" :> strip(SubSeq(lines[Len(lines)], 3, Len(lines[Len(lines)]))))
                  @@ update_data
         ELSE extract_title_no_break(SubSeq(lines, 1, Len(lines) - 1), update_data)

\* for line in lines: if line.startswith('# '): update_data['title'] = line[2:].strip(); break
RECURSIVE extract_title(_, _)
extract_title(lines, update_data) ==
    IF lines = << >> THEN update_data
    ELSE IF startswith_heading(Head(lines))
         THEN ("title" :> strip(SubSeq(Head(lines), 3, Len(Head(lines))))) @@ update_data
         ELSE extract_title(Tail(lines), update_data)

----------------------------------------------------------------------------
(* Python dicts: a dict is a function from its keys; 'k' in d is k \in DOMAIN d *)

EmptyDict == [k \in {} |-> None]

\* the bodies that carry key k with a value of Vs, or do not carry it
Opt(k, Vs) == {EmptyDict} \cup {k :> v : v \in Vs}

\* the dicts that carry what a dict of A and a dict of B carry
Merge(A, B) == {a @@ b : a \in A, b \in B}

\* d.get(k, default)
get(d, k, default) == IF k \in DOMAIN d THEN d[k] ELSE default

\* falsy values of the kinds the model carries: None and the empty string
falsy(v) == v = None \/ v = ""

----------------------------------------------------------------------------
(* The notes collection and its indexes (database.py) *)

\* db.notes.create_index('shortid', unique=True, sparse=True): no other
\* document carries the same shortid.
shortid_index_rejects(ns, oid, doc) ==
    \E o \in DOMAIN ns : o # oid /\ ns[o].shortid = doc.shortid

\* the collection without a unique index on alias
alias_index_missing(ns, oid, doc) == FALSE

\* db.notes.create_index('alias', unique=True, sparse=True): a sparse index
\* leaves out the documents that lack the field; Note.create stores the field
\* in every document (None when no alias was given), so every document is in
\* the index and a stored null is a key like any other.
alias_index_rejects(ns, oid, doc) ==
    \E o \in DOMAIN ns : o # oid /\ ns[o].alias = doc.alias

DuplicateKeyError(ns, oid, doc) ==
    shortid_index_rejects(ns, oid, doc) \/ alias_index_rejects(ns, oid, doc)

\* collection.find_one(filter), given the documents that match the filter:
\* the first of them in insertion order (its _id), or None
find_one(matching) ==
    IF matching = {} THEN NoNote
    ELSE CHOOSE o \in matching : \A p \in matching : o <= p

\* {'$set': update_data} on one document
apply_set(doc, update_data) ==
    [k \in DOMAIN doc |-> IF k \in DOMAIN update_data THEN update_data[k] ELSE doc[k]]

----------------------------------------------------------------------------
(* bson.ObjectId *)

\* ObjectId(s) accepts exactly the 24-character hexadecimal strings
ObjectId_valid(s) == \E i \in 1..Len(OidStrings) : OidStrings[i] = s

\* ObjectId(s), for a valid s
ObjectId(s) == CHOOSE i \in 1..Len(OidStrings) : OidStrings[i] = s

\* str(note['_id'])
str(oid) == OidStrings[oid]

Raised == -1            \* an exception left the call instead of a value

----------------------------------------------------------------------------
(* models/note.py *)

\* shortuuid.uuid()[:10]: any of the short ids
generate_shortid == ShortIds

\* note_data storing the permission it was passed, whoever the owner is
Note_create_data_keeps_permission(shortid, owner_id, title, content, permission, alias) ==
    [shortid |-> shortid,
     alias |-> alias,
     title |-> title,
     content |-> IF content = EmptyContent
                 THEN <<(<<"#", " ">> \o title), << >>, Placeholder>>
                 ELSE content,
     owner_id |-> owner_id,
     permission |-> permission,
     view_count |-> 0,
     last_change_user_id |-> owner_id]

\* note_data of Note.create (timestamps left out)
Note_create_data(shortid, owner_id, title, content, permission, alias) ==
    [shortid |-> shortid,
     alias |-> alias,
     title |-> title,
     content |-> IF content = EmptyContent
                 THEN <<(<<"#", " ">> \o title), << >>, Placeholder>>
                 ELSE content,
     owner_id |-> owner_id,
     permission |-> IF ~falsy(owner_id) THEN permission ELSE "freely",
     view_count |-> 0,
     last_change_user_id |-> owner_id]

\* collection.insert_one(note_data) under the unique indexes; Note.create
\* returns the document, or None when the insert raised.
Note_create(ns, oid, note_data) ==
    IF DuplicateKeyError(ns, oid, note_data)
    THEN [note |-> NoNote, ns |-> ns]
    ELSE [note |-> oid, ns |-> (oid :> note_data) @@ ns]

\* find_by_id without its try/except: the InvalidId of ObjectId(note_id) leaves it
find_by_id_unguarded(ns, note_id) ==
    IF ~ObjectId_valid(note_id)
    THEN Raised
    ELSE IF ObjectId(note_id) \in DOMAIN ns THEN ObjectId(note_id) ELSE NoNote

find_by_id(ns, note_id) ==
    IF ~ObjectId_valid(note_id)
    THEN NoNote                                     \* except: return None
    ELSE IF ObjectId(note_id) \in DOMAIN ns THEN ObjectId(note_id) ELSE NoNote

find_by_shortid(ns, shortid) == find_one({o \in DOMAIN ns : ns[o].shortid = shortid})

find_by_alias(ns, alias) == find_one({o \in DOMAIN ns : ns[o].alias = alias})

\* find_by_id_or_shortid trying the alias before the short id
find_by_id_or_shortid_alias_first(ns, note_id) ==
    IF find_by_alias(ns, note_id) # NoNote THEN find_by_alias(ns, note_id)
    ELSE IF find_by_shortid(ns, note_id) # NoNote THEN find_by_shortid(ns, note_id)
    ELSE find_by_id(ns, note_id)

find_by_id_or_shortid(ns, note_id) ==
    IF find_by_shortid(ns, note_id) # NoNote THEN find_by_shortid(ns, note_id)
    ELSE IF find_by_alias(ns, note_id) # NoNote THEN find_by_alias(ns, note_id)
    ELSE find_by_id(ns, note_id)

\* Note.update: the update document it sends, then find_one_and_update
Note_update_data(update_data, user_id) ==
    LET with_user == IF ~falsy(user_id)
                     THEN ("last_change_user_id" :> user_id) @@ update_data
                     ELSE update_data
    IN  IF "content" \in DOMAIN with_user /\ "title" \notin DOMAIN with_user
        THEN extract_title(with_user.content, with_user)
        ELSE with_user

Note_update(ns, oid, update_data, user_id) ==
    LET doc == apply_set(ns[oid], Note_update_data(update_data, user_id))
    IN  IF oid \notin DOMAIN ns \/ DuplicateKeyError(ns, oid, doc)
        THEN [note |-> NoNote, ns |-> ns]
        ELSE [note |-> oid, ns |-> [ns EXCEPT ![oid] = doc]]

\* update_one({'_id': ...}, {'$inc': {'view_count': 1}})
increment_view_count(ns, oid) ==
    IF oid \in DOMAIN ns
    THEN [ns EXCEPT ![oid].view_count = @ + 1]
    ELSE ns

\* Note.delete: delete_one({'_id': ObjectId(note_id)}); deleted_count > 0
Note_delete(ns, oid) ==
    [deleted |-> oid \in DOMAIN ns,
     ns |-> [o \in DOMAIN ns \ {oid} |-> ns[o]]]

\* Note.delete_by_owner: delete_many({'owner_id': owner_id})
Note_delete_by_owner(ns, owner_id) ==
    [o \in {x \in DOMAIN ns : ns[x].owner_id # owner_id} |-> ns[o]]

\* User.delete: delete_one({'_id': ObjectId(user_id)}); deleted_count > 0
User_delete(users, user_id) ==
    [deleted |-> user_id \in DOMAIN users,
     users |-> [u \in DOMAIN users \ {user_id} |-> users[u]]]

\* is_owner comparing the two identities whether or not they are present
is_owner_compares_absent(ns, note, user_id) ==
    IF note = NoNote
    THEN FALSE
    ELSE ns[note].owner_id = user_id

is_owner(ns, note, user_id) ==
    IF falsy(user_id) \/ note = NoNote
    THEN FALSE
    ELSE ns[note].owner_id = user_id

\* can_view without its 'locked' case
can_view_locked_public(ns, note, user_id) ==
    IF note = NoNote THEN FALSE
    ELSE LET permission == ns[note].permission
         IN  IF permission = "private" THEN is_owner(ns, note, user_id)
             ELSE IF permission = "limited" THEN is_owner(ns, note, user_id)
             ELSE TRUE

can_view(ns, note, user_id) ==
    IF note = NoNote THEN FALSE
    ELSE LET permission == ns[note].permission
         IN  IF permission = "private" THEN is_owner(ns, note, user_id)
             ELSE IF permission = "limited" THEN is_owner(ns, note, user_id)
             ELSE IF permission = "locked" THEN user_id # None
             ELSE TRUE

can_edit(ns, note, user_id) ==
    IF note = NoNote THEN FALSE
    ELSE LET permission == ns[note].permission
         IN  IF permission = "freely" THEN TRUE
             ELSE IF permission = "editable" THEN user_id # None
             ELSE IF permission \in {"private", "locked", "protected", "limited"}
                  THEN is_owner(ns, note, user_id)
             ELSE FALSE

\* text.split(): the maximal runs of characters that are not whitespace
RECURSIVE split(_)
split(text) ==
    LET rest == lstrip(text)
        n == IF \E i \in 1..Len(rest) : rest[i] \in Whitespace
             THEN (CHOOSE i \in 1..Len(rest) :
                      /\ rest[i] \in Whitespace
                      /\ \A k \in 1..(i - 1) : rest[k] \notin Whitespace) - 1
             ELSE Len(rest)
    IN  IF rest = << >> THEN << >>
        ELSE <<SubSeq(rest, 1, n)>> \o split(SubSeq(rest, n + 1, Len(rest)))

\* ' '.join(words)
RECURSIVE join(_)
join(words) ==
    IF words = << >> THEN << >>
    ELSE IF Len(words) = 1 THEN words[1]
    ELSE words[1] \o <<" ">> \o join(Tail(words))

\* s.rsplit(' ', 1)[0]: s up to its last space, the whole of s when it has none
rsplit_first(s) ==
    IF \E i \in 1..Len(s) : s[i] = " "
    THEN SubSeq(s, 1, (CHOOSE i \in 1..Len(s) :
                          s[i] = " " /\ \A k \in (i + 1)..Len(s) : s[k] # " ") - 1)
    ELSE s

Ellipsis == <<".", ".", ".">>

\* Note.generate_description on a content without markdown markup (no '#',
\* brackets, '*', '_' or backquote), which the re.sub passes leave as it is
generate_description(content, max_length) ==
    LET text == join(split(content))
    IN  IF Len(text) > max_length
        THEN rsplit_first(SubSeq(text, 1, max_length)) \o Ellipsis
        ELSE text

----------------------------------------------------------------------------
(* Note.render_html.  Markup is a sequence of tokens: a text, an opening tag
   with the names of its attributes, a closing tag, or the text that is the
   escaped source of a tag ('&lt;script&gt;') *)

text_token(t) == [kind |-> "text", name |-> t, attrs |-> {}]
open_tag(name, attrs) == [kind |-> "open", name |-> name, attrs |-> attrs]
close_tag(name) == [kind |-> "close", name |-> name, attrs |-> {}]
escaped_tag(token) == [kind |-> "escaped", name |-> token.name, attrs |-> token.attrs]

\* the tags markdown.markdown takes as a block of raw HTML
BlockLevel == {"script", "div", "p", "pre", "table", "blockquote", "ul", "ol"}

\* markdown.markdown(content, extensions=[...]): raw HTML goes through as it
\* is written; a run of text and inline tags becomes a paragraph
markdown_markdown(content) ==
    IF content = << >> THEN << >>
    ELSE IF Head(content).kind = "open" /\ Head(content).name \in BlockLevel THEN content
    ELSE <<open_tag("p", {})>> \o content \o <<close_tag("p")>>

bleach_ALLOWED_TAGS ==
    {"a", "abbr", "acronym", "b", "blockquote", "code", "em", "i", "li", "ol", "strong", "ul"}

allowed_tags ==
    bleach_ALLOWED_TAGS \cup
    {"p", "pre", "code", "h1", "h2", "h3", "h4", "h5", "h6",
     "table", "thead", "tbody", "tr", "th", "td",
     "ul", "ol", "li", "blockquote", "hr", "br",
     "img", "div", "span"}

\* {**bleach.ALLOWED_ATTRIBUTES, 'img': [...], 'a': [...], ...}
allowed_attrs(tag) ==
    CASE tag = "img" -> {"src", "alt", "title"}
      [] tag = "a" -> {"href", "title", "target"}
      [] tag \in {"code", "pre", "div", "span"} -> {"class"}
      [] tag \in {"abbr", "acronym"} -> {"title"}
      [] OTHER -> {}

\* bleach.clean(html, tags=..., attributes=..., strip=...): a tag of the list
\* keeps the attributes of its list; any other tag is dropped when strip is
\* true and escaped into text when it is false; text is kept
RECURSIVE bleach_clean(_, _)
bleach_clean(html, strip_tags) ==
    IF html = << >> THEN << >>
    ELSE LET token == Head(html)
             cleaned == IF token.kind \notin {"open", "close"} THEN <<token>>
                        ELSE IF token.name \in allowed_tags
                        THEN <<[token EXCEPT !.attrs = @ \cap allowed_attrs(token.name)]>>
                        ELSE IF strip_tags THEN << >>
                        ELSE <<escaped_tag(token)>>
         IN  cleaned \o bleach_clean(Tail(html), strip_tags)

\* the strip parameter of bleach.clean, which the call leaves at its default
bleach_strip_default == FALSE

render_html(content) == bleach_clean(markdown_markdown(content), bleach_strip_default)

----------------------------------------------------------------------------
(* routes/notes.py *)

ALLOW_ANONYMOUS == TRUE

\* a response: the HTTP status, the note the handler resolved (or created),
\* and the collection as the handler leaves it
response(status, note, ns) == [status |-> status, note |-> note, ns |-> ns]

\* update_data taking permission and alias from any editor's body
update_note_data_any_editor(ns, note, user_id, data) ==
    LET t == IF "title" \in DOMAIN data THEN ("title" :> data.title) ELSE EmptyDict
        c == IF "content" \in DOMAIN data THEN ("content" :> data.content) ELSE EmptyDict
        p == IF "permission" \in DOMAIN data
             THEN ("permission" :> data.permission) ELSE EmptyDict
        a == IF "alias" \in DOMAIN data
             THEN ("alias" :> data.alias) ELSE EmptyDict
    IN  t @@ c @@ p @@ a

\* update_data taking permission and alias from whoever may edit the note
update_note_data_editor_owns(ns, note, user_id, data) ==
    LET t == IF "title" \in DOMAIN data THEN ("title" :> data.title) ELSE EmptyDict
        c == IF "content" \in DOMAIN data THEN ("content" :> data.content) ELSE EmptyDict
        p == IF "permission" \in DOMAIN data /\ can_edit(ns, note, user_id)
             THEN ("permission" :> data.permission) ELSE EmptyDict
        a == IF "alias" \in DOMAIN data /\ can_edit(ns, note, user_id)
             THEN ("alias" :> data.alias) ELSE EmptyDict
    IN  t @@ c @@ p @@ a

\* update_data taking every field of the request body
update_note_data_whole_body(ns, note, user_id, data) == data

\* the update_data dict update_note builds from the request body
update_note_data(ns, note, user_id, data) ==
    LET t == IF "title" \in DOMAIN data THEN ("title" :> data.title) ELSE EmptyDict
        c == IF "content" \in DOMAIN data THEN ("content" :> data.content) ELSE EmptyDict
        p == IF "permission" \in DOMAIN data /\ is_owner(ns, note, user_id)
             THEN ("permission" :> data.permission) ELSE EmptyDict
        a == IF "alias" \in DOMAIN data /\ is_owner(ns, note, user_id)
             THEN ("alias" :> data.alias) ELSE EmptyDict
    IN  t @@ c @@ p @@ a

\* POST /api/notes; oid and shortid are what the driver and shortuuid draw
create_note_response(ns, oid, shortid, user_id, data) ==
    IF falsy(user_id) /\ ~ALLOW_ANONYMOUS
    THEN response(401, NoNote, ns)
    ELSE LET title == get(data, "title", Untitled)
             content == get(data, "content", EmptyContent)
             permission == IF ~falsy(user_id) THEN "private" ELSE "freely"
             alias == get(data, "alias", None)
             created == Note_create(ns, oid,
                            Note_create_data(shortid, user_id, title, content,
                                             permission, alias))
         IN  IF created.note = NoNote
             THEN response(500, NoNote, ns)
             ELSE response(201, created.note, created.ns)

\* get_note counting the view before it checks the permission
get_note_response_counts_first(ns, user_id, note_id) ==
    LET note == find_by_id_or_shortid(ns, note_id)
    IN  IF note = Raised THEN response(500, NoNote, ns)
        ELSE IF note = NoNote THEN response(404, NoNote, ns)
        ELSE IF ~can_view(ns, note, user_id)
             THEN response(403, note, increment_view_count(ns, note))
        ELSE response(200, note, increment_view_count(ns, note))

\* GET /api/notes/<note_id>
get_note_response(ns, user_id, note_id) ==
    LET note == find_by_id_or_shortid(ns, note_id)
    IN  IF note = Raised THEN response(500, NoNote, ns)
        ELSE IF note = NoNote THEN response(404, NoNote, ns)
        ELSE IF ~can_view(ns, note, user_id) THEN response(403, note, ns)
        ELSE response(200, note, increment_view_count(ns, note))

\* update_note answering "not found" to an actor who may not edit
update_note_response_hides(ns, user_id, note_id, data) ==
    LET note == find_by_id_or_shortid(ns, note_id)
    IN  IF note = Raised THEN response(500, NoNote, ns)
        ELSE IF note = NoNote \/ ~can_edit(ns, note, user_id)
             THEN response(404, NoNote, ns)
        ELSE LET updated == Note_update(ns, note,
                                update_note_data(ns, note, user_id, data), user_id)
             IN  IF updated.note = NoNote
                 THEN response(500, note, ns)
                 ELSE response(200, note, updated.ns)

\* PUT /api/notes/<note_id>
update_note_response(ns, user_id, note_id, data) ==
    LET note == find_by_id_or_shortid(ns, note_id)
    IN  IF note = Raised THEN response(500, NoNote, ns)
        ELSE IF note = NoNote THEN response(404, NoNote, ns)
        ELSE IF ~can_edit(ns, note, user_id) THEN response(403, note, ns)
        ELSE LET updated == Note_update(ns, note,
                                update_note_data(ns, note, user_id, data), user_id)
             IN  IF updated.note = NoNote
                 THEN response(500, note, ns)
                 ELSE response(200, note, updated.ns)

\* delete_note letting whoever may edit the note delete it
delete_note_response_any_editor(ns, user_id, note_id) ==
    IF falsy(user_id) THEN response(401, NoNote, ns)
    ELSE LET note == find_by_id_or_shortid(ns, note_id)
         IN  IF note = Raised THEN response(500, NoNote, ns)
             ELSE IF note = NoNote THEN response(404, NoNote, ns)
             ELSE IF ~can_edit(ns, note, user_id) THEN response(403, note, ns)
             ELSE LET deleted == Note_delete(ns, note)
                  IN  IF ~deleted.deleted
                      THEN response(500, note, ns)
                      ELSE response(200, note, deleted.ns)

\* DELETE /api/notes/<note_id>, under @jwt_required()
delete_note_response(ns, user_id, note_id) ==
    IF falsy(user_id) THEN response(401, NoNote, ns)
    ELSE LET note == find_by_id_or_shortid(ns, note_id)
         IN  IF note = Raised THEN response(500, NoNote, ns)
             ELSE IF note = NoNote THEN response(404, NoNote, ns)
             ELSE IF ~is_owner(ns, note, user_id) THEN response(403, note, ns)
             ELSE LET deleted == Note_delete(ns, note)
                  IN  IF ~deleted.deleted
                      THEN response(500, note, ns)
                      ELSE response(200, note, deleted.ns)

\* DELETE /api/users/me (routes/users.py), under @jwt_required(): the status,
\* the notes collection and the users collection it leaves
delete_account_response(ns, users, user_id) ==
    IF falsy(user_id) THEN [status |-> 401, ns |-> ns, users |-> users]
    ELSE LET success == User_delete(users, user_id)
         IN  [status |-> IF success.deleted THEN 200 ELSE 500,
              ns |-> Note_delete_by_owner(ns, user_id),
              users |-> success.users]

\* the note get_published_note looks up: short id, then alias
published_note(ns, shortid) ==
    IF find_by_shortid(ns, shortid) # NoNote
    THEN find_by_shortid(ns, shortid)
    ELSE find_by_alias(ns, shortid)

\* GET /api/notes/s/<shortid>
get_published_note_response(ns, user_id, shortid) ==
    LET note == published_note(ns, shortid)
    IN  IF note = NoNote THEN response(404, NoNote, ns)
        ELSE IF ~can_view(ns, note, user_id) THEN response(403, note, ns)
        ELSE response(200, note, increment_view_count(ns, note))

----------------------------------------------------------------------------
(* The actions: one request served *)

RECURSIVE sum_views(_, _)
sum_views(ns, S) ==
    IF S = {} THEN 0
    ELSE LET o == CHOOSE x \in S : TRUE IN ns[o].view_count + sum_views(ns, S \ {o})

TotalViews == sum_views(notes, DOMAIN notes)

create_note(user_id, data) ==
    /\ next_oid <= MaxNotes
    /\ \E shortid \in generate_shortid :
          LET r == create_note_response(notes, next_oid, shortid, user_id, data)
          IN  /\ notes' = r.ns
              /\ next_oid' = IF r.status = 201 THEN next_oid + 1 ELSE next_oid
    /\ UNCHANGED <<update_vars, user_vars, call_vars>>

get_note(user_id, note_id) ==
    LET r == get_note_response(notes, user_id, note_id)
    IN  /\ r.status = 200 => TotalViews < MaxViews
        /\ notes' = r.ns
        /\ UNCHANGED <<next_oid, update_vars, user_vars, call_vars>>

update_note(user_id, note_id, data) ==
    LET r == update_note_response(notes, user_id, note_id, data)
    IN  /\ notes' = r.ns
        /\ UNCHANGED <<next_oid, update_vars, user_vars, call_vars>>

get_published_note(user_id, shortid) ==
    LET r == get_published_note_response(notes, user_id, shortid)
    IN  /\ r.status = 200 => TotalViews < MaxViews
        /\ notes' = r.ns
        /\ UNCHANGED <<next_oid, update_vars, user_vars, call_vars>>

delete_note(user_id, note_id) ==
    LET r == delete_note_response(notes, user_id, note_id)
    IN  /\ notes' = r.ns
        /\ UNCHANGED <<next_oid, update_vars, user_vars, call_vars>>

delete_account(user_id) ==
    LET r == delete_account_response(notes, history, user_id)
    IN  /\ notes' = r.ns
        /\ history' = r.users
        /\ UNCHANGED <<next_oid, adding, clock, update_vars, call_vars>>

----------------------------------------------------------------------------
(* Concurrent requests: update_note is two operations on the store, the read
   of the note (find_by_id_or_shortid) and Note.update's find_one_and_update;
   requests served by other threads run between the two *)

Workers == {"w1", "w2"}         \* the threads that serve requests

\* a thread that is in no update_note call
NoUpdate == [pc |-> "idle", note |-> NoNote, update_data |-> EmptyDict, user_id |-> None]

\* update_note up to its call of Note.update: the status it answers at once
\* (0 when it goes on), and what it goes on to write: the _id of the note it
\* read, the update_data built from the note as read, the actor
update_note_read(ns, user_id, note_id, data) ==
    LET note == find_by_id_or_shortid(ns, note_id)
    IN  IF note = Raised THEN [status |-> 500, pending |-> NoUpdate]
        ELSE IF note = NoNote THEN [status |-> 404, pending |-> NoUpdate]
        ELSE IF ~can_edit(ns, note, user_id) THEN [status |-> 403, pending |-> NoUpdate]
        ELSE [status |-> 0,
              pending |-> [pc |-> "write", note |-> note,
                           update_data |-> update_note_data(ns, note, user_id, data),
                           user_id |-> user_id]]

\* the thread reads the note and is allowed to go on
update_note_begin(w, user_id, note_id, data) ==
    /\ pending[w].pc = "idle"
    /\ LET r == update_note_read(notes, user_id, note_id, data)
       IN  /\ r.status = 0
           /\ pending' = [pending EXCEPT ![w] = r.pending]
    /\ UNCHANGED <<note_vars, user_vars, call_vars>>

\* Note.update(note['_id'], update_data, user_id) on the collection as it is now
update_note_write(w) ==
    /\ pending[w].pc = "write"
    /\ notes' = Note_update(notes, pending[w].note, pending[w].update_data,
                            pending[w].user_id).ns
    /\ pending' = [pending EXCEPT ![w] = NoUpdate]
    /\ UNCHANGED <<next_oid, user_vars, call_vars>>

----------------------------------------------------------------------------
(* models/user.py and routes/users.py: the history of a user.  An entry is
   {'note_id': ..., 'accessed_at': ...}; add_to_history is two update_one
   operations, and requests served by other threads run between the two *)

HISTORY_SLICE == 100        \* '$slice': 100

\* a thread that is in no add_to_history call
NoAdd == [pc |-> "idle", user_id |-> None, entry |-> [note_id |-> None, accessed_at |-> 0]]

\* {'$pull': {'history': {'note_id': note_id}}}
pull(h, note_id) == SelectSeq(h, LAMBDA e : e.note_id # note_id)

\* {'$push': {'history': {'$each': [history_entry], '$position': 0, '$slice': 100}}}
push(h, history_entry) ==
    LET pushed == <<history_entry>> \o h
    IN  SubSeq(pushed, 1, IF Len(pushed) < HISTORY_SLICE THEN Len(pushed) ELSE HISTORY_SLICE)

\* POST /api/users/me/history up to the first update_one of User.add_to_history:
\* the entry is made with the time of the call, the $pull is applied
add_to_history_pull(w, user_id, data) ==
    LET note_id == get(data, "note_id", None)
    IN  /\ adding[w].pc = "idle"
        /\ clock < MaxAdds
        /\ ~falsy(note_id)                          \* else 400
        /\ history' = [history EXCEPT ![user_id] = pull(@, note_id)]
        /\ adding' = [adding EXCEPT ![w] =
                         [pc |-> "push", user_id |-> user_id,
                          entry |-> [note_id |-> note_id, accessed_at |-> clock]]]
        /\ clock' = clock + 1
        /\ UNCHANGED <<note_vars, update_vars, call_vars>>

\* the second update_one of User.add_to_history
add_to_history_push(w) ==
    /\ adding[w].pc = "push"
    /\ history' = [history EXCEPT ![adding[w].user_id] = push(@, adding[w].entry)]
    /\ adding' = [adding EXCEPT ![w] = NoAdd]
    /\ UNCHANGED <<clock, note_vars, update_vars, call_vars>>

\* DELETE /api/users/me/history/<note_id>: one update_one
remove_from_history(user_id, note_id) ==
    /\ history' = [history EXCEPT ![user_id] = pull(@, note_id)]
    /\ UNCHANGED <<adding, clock, note_vars, update_vars, call_vars>>

----------------------------------------------------------------------------
(* Calls of the functions of the Note model that read no collection *)

\* Note.generate_description(content, max_length) is called and returns
generate_description_call ==
    /\ returned = << >>
    /\ returned' = <<generate_description(call.content, call.max_length)>>
    /\ UNCHANGED <<call, note_vars, update_vars, user_vars>>

\* Note.render_html(content) is called and returns
render_html_call ==
    /\ returned = << >>
    /\ returned' = <<render_html(call.content)>>
    /\ UNCHANGED <<call, note_vars, update_vars, user_vars>>

----------------------------------------------------------------------------
(* The request bodies and the specifications *)

\* no call is in flight, no user has a history, no function has been called
Quiet ==
    /\ pending = [w \in Workers |-> NoUpdate]
    /\ history = [u \in Users |-> << >>]
    /\ adding = [w \in Workers |-> NoAdd]
    /\ clock = 0
    /\ call = << >>
    /\ returned = << >>

Init ==
    /\ notes = [o \in {} |-> None]
    /\ next_oid = 1
    /\ Quiet

\* the requests clients send: who creates with which bodies, which references
\* are looked up, which bodies are put
Requests(creators, create_bodies, refs, update_bodies) ==
    \/ \E user_id \in creators, data \in create_bodies : create_note(user_id, data)
    \/ \E user_id \in Actors, note_id \in refs : get_note(user_id, note_id)
    \/ \E user_id \in Actors, note_id \in refs, data \in update_bodies :
          update_note(user_id, note_id, data)
    \/ \E user_id \in Actors, shortid \in refs : get_published_note(user_id, shortid)

\* Spec, the permission scheme: every permission value in the bodies, an alias
\* that collides with nothing, notes created without alias and looked up by
\* short id.
CreateBodies == Opt("permission", {"limited", BogusPermission})

UpdateBodies ==
    Opt("content", {ContentHeading})
    \cup Opt("permission", PERMISSION_TYPES \cup {BogusPermission})
    \cup Opt("alias", {None, PlainAlias})
    \cup {("content" :> ContentHeading) @@ ("permission" :> "private")
             @@ ("alias" :> PlainAlias)}

Refs == ShortIds \cup {Malformed}

Next == Requests(Actors, CreateBodies, Refs, UpdateBodies)

Spec == Init /\ [][Next]_vars

\* SpecResolve, the resolution of references: aliases that are also another
\* note's short id or the text of an ObjectId, every kind of reference; the
\* notes keep the permission they were created with.
ResolveCreateBodies == Opt("alias", {None, ShortIdStrings[1]})

ResolveUpdateBodies == Opt("alias", AliasInputs)

ResolveRefs == ShortIds \cup {Malformed} \cup {OidStrings[i] : i \in 1..(MaxNotes + 1)}

NextResolve == Requests(Actors, ResolveCreateBodies, ResolveRefs, ResolveUpdateBodies)

SpecResolve == Init /\ [][NextResolve]_vars

\* the requests clients send when update_note's two steps interleave with
\* the steps of other requests
ConcurrentRequests(creators, create_bodies, refs, update_bodies) ==
    \/ \E user_id \in creators, data \in create_bodies : create_note(user_id, data)
    \/ \E w \in Workers, user_id \in Actors, note_id \in refs, data \in update_bodies :
          update_note_begin(w, user_id, note_id, data)
    \/ \E w \in Workers : update_note_write(w)

\* SpecAlias, aliases under concurrent requests: notes created with one of two
\* aliases, owners who set, change and clear aliases.
OtherAlias == "other-note"

AliasCreateBodies == Opt("alias", {PlainAlias, OtherAlias})

AliasUpdateBodies == Opt("alias", {None, PlainAlias, OtherAlias})

NextAlias == ConcurrentRequests(Users, AliasCreateBodies, ShortIds, AliasUpdateBodies)

SpecAlias == Init /\ [][NextAlias]_vars

\* a title a request body carries
TitleGiven == <<"T">>

\* SpecRace, edits and changes of permission under concurrent requests: an
\* owner who opens her notes to everyone and closes them again while she and
\* the other actors edit title and content.
RaceCreateBodies == Opt("alias", {PlainAlias})

RaceUpdateBodies ==
    {"content" :> ContentHeading, "title" :> TitleGiven,
     "permission" :> "freely", "permission" :> "private"}

NextRace == ConcurrentRequests({"u1"}, RaceCreateBodies, ShortIds, RaceUpdateBodies)

SpecRace == Init /\ [][NextRace]_vars

\* SpecEdit, what an edit writes: bodies with and without a title, contents
\* with and without a heading line, bodies that carry fields update_note
\* does not read; the notes are those of one user, which she alone edits,
\* and anonymous ones, which everyone edits.
\* no line is a heading: 'intro', '## C' (two '#'), '#D' (no space), ' # E' (indented)
ContentPlain == << <<"i", "n", "t", "r", "o">>, <<"#", "#", " ", "C">>, <<"#", "D">>,
                   <<" ", "#", " ", "E">> >>

EditCreateBodies == Opt("alias", {PlainAlias})

EditUpdateBodies ==
    Opt("title", {TitleGiven})
    \cup Opt("content", {ContentHeading, ContentPlain})
    \cup {("title" :> TitleGiven) @@ ("content" :> ContentHeading)}
    \cup Opt("owner_id", {"u2"})
    \cup Opt("shortid", {ShortIdStrings[2]})

NextEdit == Requests({"u1", None}, EditCreateBodies, ShortIds, EditUpdateBodies)

SpecEdit == Init /\ [][NextEdit]_vars

\* SpecHistory, the histories under concurrent requests: a user starts with
\* no history or with a full one (a hundred notes, the latest first), and
\* adds and removes the latest of them, the oldest of them and a note that is
\* not among them.
OldHistory == [i \in 1..HISTORY_SLICE |-> [note_id |-> ToString(i), accessed_at |-> 0 - i]]

HistoryNoteIds == {"1", ToString(HISTORY_SLICE), "Zk3mVw8QpT"}

HistoryBodies == Opt("note_id", HistoryNoteIds)

InitHistory ==
    /\ notes = [o \in {} |-> None]
    /\ next_oid = 1
    /\ pending = [w \in Workers |-> NoUpdate]
    /\ history \in [Users -> {<< >>, OldHistory}]
    /\ adding = [w \in Workers |-> NoAdd]
    /\ clock = 0
    /\ call = << >>
    /\ returned = << >>

NextHistory ==
    \/ \E w \in Workers, user_id \in Users, data \in HistoryBodies :
          add_to_history_pull(w, user_id, data)
    \/ \E w \in Workers : add_to_history_push(w)
    \/ \E user_id \in Users, note_id \in HistoryNoteIds :
          remove_from_history(user_id, note_id)

SpecHistory == InitHistory /\ [][NextHistory]_vars

\* SpecDescription, generate_description on every text of words of 'a' and
\* 'b', spaces and line ends up to MaxTextLen characters, with every limit
\* up to MaxLimit.
RECURSIVE Texts(_)
Texts(n) ==
    IF n = 0 THEN {<< >>}
    ELSE Texts(n - 1) \cup {Append(t, c) : t \in Texts(n - 1), c \in {"a", "b", " ", "\n"}}

InitDescription ==
    /\ notes = [o \in {} |-> None]
    /\ next_oid = 1
    /\ pending = [w \in Workers |-> NoUpdate]
    /\ history = [u \in Users |-> << >>]
    /\ adding = [w \in Workers |-> NoAdd]
    /\ clock = 0
    /\ call \in {[content |-> t, max_length |-> l] : t \in Texts(MaxTextLen), l \in 1..MaxLimit}
    /\ returned = << >>

NextDescription == generate_description_call

SpecDescription == InitDescription /\ [][NextDescription]_vars

\* SpecRender, render_html on every content of up to MaxTokens pieces among:
\* a text, <script> and </script>, <img src=x onerror=...>,
\* <a href=... onclick=...>, <b>.
MarkdownPieces ==
    {text_token("alert(1)"), open_tag("script", {}), close_tag("script"),
     open_tag("img", {"src", "onerror"}), open_tag("a", {"href", "onclick"}),
     open_tag("b", {})}

RECURSIVE Contents(_)
Contents(n) ==
    IF n = 0 THEN {<< >>}
    ELSE Contents(n - 1) \cup {Append(c, t) : c \in Contents(n - 1), t \in MarkdownPieces}

InitRender ==
    /\ notes = [o \in {} |-> None]
    /\ next_oid = 1
    /\ pending = [w \in Workers |-> NoUpdate]
    /\ history = [u \in Users |-> << >>]
    /\ adding = [w \in Workers |-> NoAdd]
    /\ clock = 0
    /\ call \in {[content |-> c] : c \in Contents(MaxTokens)}
    /\ returned = << >>

NextRender == render_html_call

SpecRender == InitRender /\ [][NextRender]_vars

\* SpecAnonymous, anonymous notes: notes created without a token, with and
\* without an alias, beside the notes of one user; every actor asks for every
\* note to be restricted and to be given another alias or none.
AnonymousCreateBodies == Opt("alias", {PlainAlias})

AnonymousUpdateBodies ==
    Opt("permission", {"private", "locked"})
    \cup Opt("alias", {None, OtherAlias})
    \cup {("title" :> TitleGiven) @@ ("permission" :> "private") @@ ("alias" :> OtherAlias)}

NextAnonymous ==
    Requests({"u1", None}, AnonymousCreateBodies, ShortIds, AnonymousUpdateBodies)

SpecAnonymous == Init /\ [][NextAnonymous]_vars

\* SpecDelete, notes that leave the collection: notes of one user and
\* anonymous notes, the owner who opens her notes to everyone, every actor
\* who asks for every note to be deleted, users who delete their account.
DeleteCreateBodies == Opt("alias", {PlainAlias})

DeleteUpdateBodies == Opt("permission", {"freely"}) \cup Opt("title", {TitleGiven})

NextDelete ==
    \/ \E user_id \in {"u1", None}, data \in DeleteCreateBodies : create_note(user_id, data)
    \/ \E user_id \in Actors, note_id \in ShortIds, data \in DeleteUpdateBodies :
          update_note(user_id, note_id, data)
    \/ \E user_id \in Actors, note_id \in Refs : delete_note(user_id, note_id)
    \/ \E user_id \in Actors : delete_account(user_id)

SpecDelete == Init /\ [][NextDelete]_vars

----------------------------------------------------------------------------
(* The permission table of the specification (section 4.1) *)

\* who may view a note of the level: present = an actor is signed in,
\* owner = the actor is the note's owner
TableView(permission, present, owner) ==
    CASE permission = "freely" -> TRUE
      [] permission = "editable" -> TRUE
      [] permission = "limited" -> owner
      [] permission = "locked" -> present
      [] permission = "protected" -> TRUE
      [] permission = "private" -> owner

TableEdit(permission, present, owner) ==
    CASE permission = "freely" -> TRUE
      [] permission = "editable" -> present
      [] permission = "limited" -> owner
      [] permission = "locked" -> owner
      [] permission = "protected" -> owner
      [] permission = "private" -> owner

ActorIsOwner(o, u) == u # None /\ notes[o].owner_id = u

----------------------------------------------------------------------------
(* Claims *)

\* C1: for every stored note whose permission is one of the six levels and
\* every actor (anonymous, signed-in non-owner, owner), can_view and can_edit
\* give the pair of the permission table; for an absent note both are false.
C1_PermissionTable ==
    /\ \A o \in DOMAIN notes, u \in Actors :
          notes[o].permission \in PERMISSION_TYPES =>
             /\ can_view(notes, o, u)
                   = TableView(notes[o].permission, u # None, ActorIsOwner(o, u))
             /\ can_edit(notes, o, u)
                   = TableEdit(notes[o].permission, u # None, ActorIsOwner(o, u))
    /\ \A u \in Actors : ~can_view(notes, NoNote, u) /\ ~can_edit(notes, NoNote, u)

\* an owned note at 'locked' beside an owned note at 'limited': the owner has
\* changed permissions and the three kinds of actor differ in what they may do
C1_Witness ==
    \E a, b \in DOMAIN notes :
        /\ notes[a].permission = "locked" /\ notes[a].owner_id # None
        /\ notes[b].permission = "limited" /\ notes[b].owner_id # None

\* the strings that occur as a reference or as an identifier of a note
AllRefs == ResolveRefs \cup (AliasInputs \ {None})

\* C2: resolve returns the note whose short id is r if there is one, else the
\* note whose alias is r if there is one, else the note whose primary id is r
\* if there is one, else nothing.
C2_ResolvePrecedence ==
    \A r \in AllRefs :
        LET n == find_by_id_or_shortid(notes, r)
        IN  IF \E o \in DOMAIN notes : notes[o].shortid = r
            THEN n \in DOMAIN notes /\ notes[n].shortid = r
            ELSE IF \E o \in DOMAIN notes : notes[o].alias = r
            THEN n \in DOMAIN notes /\ notes[n].alias = r
            ELSE IF \E o \in DOMAIN notes : str(o) = r
            THEN n \in DOMAIN notes /\ str(n) = r
            ELSE n = NoNote

\* one string is the short id of a note and the alias of another note, so
\* that the first strategy decides between two matches
C2_Witness ==
    \E a, b \in DOMAIN notes : a # b /\ notes[b].alias = notes[a].shortid

\* C3: no reference is ambiguous: the short id, the alias (when there is one)
\* and the primary id of every note all resolve to that note.
C3_Unambiguous ==
    \A o \in DOMAIN notes :
        /\ find_by_id_or_shortid(notes, notes[o].shortid) = o
        /\ notes[o].alias # None => find_by_id_or_shortid(notes, notes[o].alias) = o
        /\ find_by_id_or_shortid(notes, str(o)) = o

\* C4: a note created by the anonymous actor has permission 'freely' in the
\* store the create request leaves, whatever permission the body asks for, and
\* Note.create's document for an absent owner has permission 'freely'
\* whatever permission it is passed.
C4_AnonymousCreatedFreely ==
    /\ \A data \in CreateBodies, shortid \in generate_shortid :
          LET r == create_note_response(notes, next_oid, shortid, None, data)
          IN  r.status = 201 => r.ns[r.note].permission = "freely"
    /\ \A permission \in PERMISSION_TYPES \cup {BogusPermission}, alias \in AliasInputs :
          Note_create_data(ShortIdStrings[1], None, Untitled, EmptyContent,
                           permission, alias).permission = "freely"

\* an anonymous note has just been created: it is in the store, unviewed and
\* unedited
C4_Witness ==
    \E o \in DOMAIN notes :
        /\ o = next_oid - 1
        /\ notes[o].owner_id = None
        /\ notes[o].permission = "freely"
        /\ notes[o].view_count = 0

\* C5: an update request by an actor who is not the owner of the note it
\* resolves to leaves the permission and the alias of every note as they
\* were, whatever the body carries.
C5_NonOwnerKeepsPermissionAlias ==
    \A u \in Actors, ref \in Refs, data \in UpdateBodies :
        LET r == update_note_response(notes, u, ref, data)
        IN  (r.note # NoNote /\ ~is_owner(notes, r.note, u)) =>
               \A o \in DOMAIN notes :
                   /\ r.ns[o].permission = notes[o].permission
                   /\ r.ns[o].alias = notes[o].alias

\* a signed-in actor who is not the owner has edited the content of an owned
\* note that is open to editing, and the note still has its alias
C5_Witness ==
    \E o \in DOMAIN notes :
        /\ notes[o].owner_id # None
        /\ notes[o].last_change_user_id \notin {None, notes[o].owner_id}
        /\ notes[o].content = ContentHeading
        /\ notes[o].permission \in {"freely", "editable"}
        /\ notes[o].alias = PlainAlias

\* C6: the permission of every stored note is one of the six levels.
C6_PermissionIsALevel ==
    \A o \in DOMAIN notes : notes[o].permission \in PERMISSION_TYPES

\* the view counts of the notes of ns in the collection a response leaves:
\* those of ns, with one more view on note n (on none when n is NoNote)
CountsAfter(ns, after, n) ==
    \A o \in DOMAIN ns :
        /\ o \in DOMAIN after
        /\ after[o].view_count = ns[o].view_count + (IF o = n THEN 1 ELSE 0)

\* what every request does to the view counts, in the store as it is
C7_ViewCountPerRequest ==
    /\ \A u \in Actors, ref \in Refs :
          LET n == find_by_id_or_shortid(notes, ref)
              r == get_note_response(notes, u, ref)
          IN  IF n # NoNote /\ can_view(notes, n, u)
              THEN r.status = 200 /\ CountsAfter(notes, r.ns, n)
              ELSE r.status # 200 /\ CountsAfter(notes, r.ns, NoNote)
    /\ \A u \in Actors, ref \in Refs :
          LET n == published_note(notes, ref)
              r == get_published_note_response(notes, u, ref)
          IN  IF n # NoNote /\ can_view(notes, n, u)
              THEN r.status = 200 /\ CountsAfter(notes, r.ns, n)
              ELSE r.status # 200 /\ CountsAfter(notes, r.ns, NoNote)
    /\ \A u \in Actors, ref \in Refs, data \in UpdateBodies :
          CountsAfter(notes, update_note_response(notes, u, ref, data).ns, NoNote)
    /\ \A u \in Actors, data \in CreateBodies, shortid \in generate_shortid :
          CountsAfter(notes, create_note_response(notes, next_oid, shortid, u, data).ns,
                      NoNote)

\* C7: a view request that resolves to a note the actor may view adds exactly
\* 1 to that note's view_count and to no other; every other request
\* (forbidden or not-found views, updates, creations) leaves every view_count
\* as it was; and no step of the system takes a view_count down or up by
\* more than 1.
C7_ViewCount ==
    /\ []C7_ViewCountPerRequest
    /\ [][\A o \in DOMAIN notes :
             /\ o \in DOMAIN notes'
             /\ notes'[o].view_count \in {notes[o].view_count, notes[o].view_count + 1}]_vars

\* a note has been viewed, and an actor who may not view it is there to ask
C7_Witness ==
    \E o \in DOMAIN notes, u \in Actors :
        /\ notes[o].view_count >= 1
        /\ ~can_view(notes, o, u)
        /\ get_note_response(notes, u, notes[o].shortid).status = 403

\* C8: the published view never answers with a note when the reference is
\* the primary id of a stored note.
C8_PublishedNeverByPrimaryId ==
    \A o \in DOMAIN notes, u \in Actors :
        get_published_note_response(notes, u, str(o)).status # 200

\* C9: a view or an edit request is answered 404 exactly when its reference
\* resolves to no note and 403 exactly when it resolves to a note the actor
\* may not view (edit); in both cases the collection is left as it was.
C9_NotFoundForbidden ==
    /\ \A u \in Actors, ref \in Refs :
          LET n == find_by_id_or_shortid(notes, ref)
              r == get_note_response(notes, u, ref)
          IN  /\ r.status = 404 <=> n = NoNote
              /\ r.status = 403 <=> (n # NoNote /\ ~can_view(notes, n, u))
              /\ r.status \in {403, 404} => r.ns = notes
    /\ \A u \in Actors, ref \in Refs, data \in UpdateBodies :
          LET n == find_by_id_or_shortid(notes, ref)
              r == update_note_response(notes, u, ref, data)
          IN  /\ r.status = 404 <=> n = NoNote
              /\ r.status = 403 <=> (n # NoNote /\ ~can_edit(notes, n, u))
              /\ r.status \in {403, 404} => r.ns = notes

\* one actor is refused the view and the edit of a stored note and is told
\* that another reference is not found
C9_Witness ==
    \E u \in Actors, ref \in Refs, other \in Refs :
        /\ get_note_response(notes, u, ref).status = 403
        /\ update_note_response(notes, u, ref, "content" :> ContentHeading).status = 403
        /\ get_note_response(notes, u, other).status = 404
        /\ update_note_response(notes, u, other, "content" :> ContentHeading).status = 404

\* C10: for a reference that is not the text of an ObjectId, resolution
\* raises nothing: the primary-id lookup finds nothing, and the result is the
\* note with that short id, else the note with that alias, else nothing.
C10_MalformedReference ==
    \A r \in AllRefs :
        ~ObjectId_valid(r) =>
            LET n == find_by_id_or_shortid(notes, r)
            IN  /\ n # Raised
                /\ find_by_id(notes, r) = NoNote
                /\ IF \E o \in DOMAIN notes : notes[o].shortid = r
                   THEN n \in DOMAIN notes /\ notes[n].shortid = r
                   ELSE IF \E o \in DOMAIN notes : notes[o].alias = r
                   THEN n \in DOMAIN notes /\ notes[n].alias = r
                   ELSE n = NoNote

\* a reference that is no ObjectId resolves through the alias strategy, and
\* another one resolves to nothing
C10_Witness ==
    /\ \E o \in DOMAIN notes :
          /\ ~ObjectId_valid(notes[o].alias)
          /\ notes[o].alias # None
          /\ \A p \in DOMAIN notes : notes[p].shortid # notes[o].alias
          /\ find_by_id_or_shortid(notes, notes[o].alias) = o
    /\ find_by_id_or_shortid(notes, Malformed) = NoNote

\* the notes other than oid that hold the alias
HeldByAnother(alias, oid) == \E o \in DOMAIN notes : o # oid /\ notes[o].alias = alias

\* C11: no two notes have the same present alias; a creation whose alias
\* another note holds fails and leaves the collection as it was, and so does
\* the write of an update (a request served at once, or the write of a
\* request that read the note earlier, other requests having run since) that
\* would give its note an alias another note holds.
C11_AliasUnique ==
    /\ \A a, b \in DOMAIN notes :
          (a # b /\ notes[a].alias # None) => notes[a].alias # notes[b].alias
    /\ \A u \in Users, data \in AliasCreateBodies, shortid \in generate_shortid :
          LET r == create_note_response(notes, next_oid, shortid, u, data)
          IN  ("alias" \in DOMAIN data /\ HeldByAnother(data.alias, next_oid)) =>
                 r.status = 500 /\ r.ns = notes
    /\ \A u \in Actors, ref \in ShortIds, data \in AliasUpdateBodies :
          LET r == update_note_response(notes, u, ref, data)
          IN  (/\ r.note # NoNote
               /\ is_owner(notes, r.note, u)
               /\ "alias" \in DOMAIN data
               /\ data.alias # None
               /\ HeldByAnother(data.alias, r.note)) =>
                 r.status = 500 /\ r.ns = notes
    /\ \A w \in Workers :
          LET p == pending[w]
              r == Note_update(notes, p.note, p.update_data, p.user_id)
          IN  (/\ p.pc = "write"
               /\ "alias" \in DOMAIN p.update_data
               /\ p.update_data.alias # None
               /\ HeldByAnother(p.update_data.alias, p.note)) =>
                 r.note = NoNote /\ r.ns = notes

\* two requests have each read their own note and go on to write the same
\* alias, which no note holds yet: whichever writes second collides
C11_Witness ==
    \E v, w \in Workers :
        /\ pending[v].pc = "write" /\ pending[w].pc = "write"
        /\ pending[v].note # pending[w].note
        /\ "alias" \in DOMAIN pending[v].update_data
        /\ "alias" \in DOMAIN pending[w].update_data
        /\ pending[v].update_data.alias = pending[w].update_data.alias
        /\ pending[v].update_data.alias # None
        /\ \A o \in DOMAIN notes : notes[o].alias # pending[v].update_data.alias

\* C12: a creation without an alias, with a short id no note has, succeeds
\* however many notes without an alias the collection holds.
C12_AliaslessCreateSucceeds ==
    \A u \in Actors, data \in CreateBodies, shortid \in generate_shortid :
        (/\ "alias" \notin DOMAIN data
         /\ \A o \in DOMAIN notes : notes[o].shortid # shortid) =>
            create_note_response(notes, next_oid, shortid, u, data).status = 201

\* C13: every step (a creation, a view, an update whatever its body carries)
\* leaves every stored note in the collection, under the primary id it has,
\* with the short id and the owner_id it has.
C13_IdentityKept ==
    [][\A o \in DOMAIN notes :
          /\ o \in DOMAIN notes'
          /\ notes'[o].shortid = notes[o].shortid
          /\ notes'[o].owner_id = notes[o].owner_id]_vars

\* a note has been viewed and has been edited by an actor who is not its
\* owner, and an update whose body carries owner_id and one whose body
\* carries shortid are accepted for it
C13_Witness ==
    \E o \in DOMAIN notes, u \in Users :
        /\ notes[o].view_count >= 1
        /\ notes[o].last_change_user_id # notes[o].owner_id
        /\ notes[o].title = TitleGiven
        /\ u # notes[o].owner_id
        /\ update_note_response(notes, u, notes[o].shortid, "owner_id" :> u).status = 200
        /\ update_note_response(notes, u, notes[o].shortid,
                                "shortid" :> ShortIdStrings[2]).status = 200

\* C14: an update request that succeeds leaves the actor (None for the
\* anonymous actor) as the last_change_user_id of the note it edited; one
\* that is refused or fails leaves every last_change_user_id as it was.
C14_LastChangeUser ==
    \A u \in Actors, ref \in ShortIds, data \in EditUpdateBodies :
        LET r == update_note_response(notes, u, ref, data)
        IN  IF r.status = 200
            THEN r.ns[r.note].last_change_user_id = u
            ELSE \A o \in DOMAIN notes :
                    r.ns[o].last_change_user_id = notes[o].last_change_user_id

\* C15: is_owner is false for the absent actor, for the absent note and for
\* a note without owner_id (so also for the anonymous actor on an anonymous
\* note); it is true exactly when the actor is present and is the note's
\* owner_id.
C15_IsOwner ==
    /\ \A u \in Actors : ~is_owner(notes, NoNote, u)
    /\ \A o \in DOMAIN notes :
          /\ ~is_owner(notes, o, None)
          /\ notes[o].owner_id = None => \A u \in Actors : ~is_owner(notes, o, u)
          /\ \A u \in Actors :
                is_owner(notes, o, u) <=> (u # None /\ notes[o].owner_id = u)

\* an anonymous note beside an owned note
C15_Witness ==
    \E a, b \in DOMAIN notes : notes[a].owner_id = None /\ notes[b].owner_id \in Users

\* C16: the history of every user holds at most a hundred entries, no two
\* of them for the same note_id, the later accessed before the earlier.
C16_History ==
    \A u \in Users :
        /\ Len(history[u]) <= HISTORY_SLICE
        /\ \A i, j \in 1..Len(history[u]) :
              i < j => /\ history[u][i].note_id # history[u][j].note_id
                       /\ history[u][i].accessed_at >= history[u][j].accessed_at

\* a line that begins with a single '#' followed by a space
HeadingLine(line) == Len(line) >= 2 /\ line[1] = "#" /\ line[2] = " "

\* t is s without the whitespace at its two ends
TrimmedOf(t, s) ==
    \E a, b \in 0..Len(s) :
        /\ a + b <= Len(s)
        /\ t = SubSeq(s, a + 1, Len(s) - b)
        /\ \A i \in 1..a : s[i] \in Whitespace
        /\ \A i \in (Len(s) - b + 1)..Len(s) : s[i] \in Whitespace
        /\ t # << >> => (t[1] \notin Whitespace /\ t[Len(t)] \notin Whitespace)

\* C17: after a successful update whose body has a title, the note has that
\* title; after one whose body has a content and no title, the note's title
\* is the trimmed remainder of the first heading line of the content, and the
\* title it had when the content has no heading line.
C17_TitleDerivation ==
    \A u \in Actors, ref \in ShortIds, data \in EditUpdateBodies :
        LET r == update_note_response(notes, u, ref, data)
        IN  r.status = 200 =>
               LET title == r.ns[r.note].title
               IN  IF "title" \in DOMAIN data THEN title = data.title
                   ELSE IF "content" \in DOMAIN data
                   THEN LET lines == data.content
                            H == {i \in 1..Len(lines) : HeadingLine(lines[i])}
                        IN  IF H = {} THEN title = notes[r.note].title
                            ELSE LET i == CHOOSE h \in H : \A k \in H : h <= k
                                 IN  TrimmedOf(title, SubSeq(lines[i], 3, Len(lines[i])))
                   ELSE TRUE

\* a note took its title from the first of two heading lines, and kept it
\* when its content became one without a heading line
C17_Witness ==
    \E o \in DOMAIN notes :
        /\ notes[o].content = ContentPlain
        /\ notes[o].title = <<"B">>

\* C18: generate_description returns the whitespace-collapsed text when it
\* has at most max_length characters; when it has more, it returns a prefix
\* of at most max_length characters that ends where a word ends (the next
\* character is a space), at the last such place within the limit, followed
\* by the ellipsis.
C18_Description ==
    returned # << >> =>
        LET text == join(split(call.content))
            L == call.max_length
        IN  IF Len(text) <= L THEN returned[1] = text
            ELSE \E k \in 0..L :
                    /\ returned[1] = SubSeq(text, 1, k) \o Ellipsis
                    /\ text[k + 1] = " "
                    /\ \A i \in (k + 2)..L : text[i] # " "

\* the allow-list of the specification (section 4.3): the baseline tags and
\* the tags it adds, and the attributes it allows on each
ListedTags ==
    {"a", "abbr", "acronym", "b", "blockquote", "code", "em", "i", "li", "ol", "strong",
     "ul", "p", "pre", "h1", "h2", "h3", "h4", "h5", "h6", "table", "thead", "tbody",
     "tr", "th", "td", "hr", "br", "img", "div", "span"}

ListedAttrs(tag) ==
    CASE tag = "img" -> {"src", "alt", "title"}
      [] tag = "a" -> {"href", "title", "target"}
      [] tag \in {"code", "pre", "div", "span"} -> {"class"}
      [] tag \in {"abbr", "acronym"} -> {"title"}
      [] OTHER -> {}

EventHandlers == {"onerror", "onclick"}

\* C19: the markup render_html returns has only listed tags, each with only
\* its listed attributes; a tag outside the list is removed, not escaped
\* into text, and the text of the content is kept; no script tag and no
\* event-handler attribute is left, and an img of the content is left with
\* attributes among src, alt and title.
C19_Sanitised ==
    returned # << >> =>
        LET html == returned[1]
            content == call.content
        IN  /\ \A i \in 1..Len(html) :
                  html[i].kind \in {"open", "close"} =>
                     /\ html[i].name \in ListedTags
                     /\ html[i].attrs \subseteq ListedAttrs(html[i].name)
                     /\ html[i].name # "script"
                     /\ html[i].attrs \cap EventHandlers = {}
            /\ \A i \in 1..Len(html) : html[i].kind # "escaped"
            /\ \A i \in 1..Len(content) :
                  content[i].kind = "text" => \E k \in 1..Len(html) : html[k] = content[i]
            /\ \A i \in 1..Len(content) :
                  content[i].name = "img" =>
                     \E k \in 1..Len(html) :
                        /\ html[k].kind = "open" /\ html[k].name = "img"
                        /\ html[k].attrs = content[i].attrs \cap {"src", "alt", "title"}

\* C20: whenever the write of an update request that carries a title or a
\* content is applied to a note, can_edit holds for the request's actor on
\* the note as it is in the collection at that moment.
C20_WriteByEditor ==
    [][\A w \in Workers :
          (/\ pending[w].pc = "write"
           /\ pending'[w].pc = "idle"
           /\ DOMAIN pending[w].update_data \cap {"title", "content"} # {}
           /\ Note_update(notes, pending[w].note, pending[w].update_data,
                          pending[w].user_id).note # NoNote) =>
              can_edit(notes, pending[w].note, pending[w].user_id)]_vars

\* C21: every stored note without owner_id has permission 'freely', and
\* every step (whatever update, by whatever actor) leaves such a note with
\* the alias it has, which is therefore the one it was created with.
C21_AnonymousStaysFreely ==
    /\ [](\A o \in DOMAIN notes :
             notes[o].owner_id = None => notes[o].permission = "freely")
    /\ [][\A o \in DOMAIN notes :
             (notes[o].owner_id = None /\ o \in DOMAIN notes') =>
                 notes'[o].alias = notes[o].alias]_vars

\* an anonymous note with an alias has been edited by a signed-in actor, and
\* that actor's request to make it private and to change its alias is
\* accepted as an edit
C21_Witness ==
    \E o \in DOMAIN notes, u \in Users :
        /\ notes[o].owner_id = None
        /\ notes[o].alias = PlainAlias
        /\ notes[o].last_change_user_id = u
        /\ notes[o].title = TitleGiven
        /\ update_note_response(notes, u, notes[o].shortid,
                                ("permission" :> "private") @@ ("alias" :> OtherAlias)).status
              = 200

\* the notes of ns that are not in the collection a request leaves all
\* have owner u, and the notes that are left are as they were
RemovedAreOwnedBy(ns, after, u) ==
    /\ DOMAIN after \subseteq DOMAIN ns
    /\ \A o \in DOMAIN ns \ DOMAIN after : u \in Users /\ ns[o].owner_id = u
    /\ \A o \in DOMAIN after : after[o] = ns[o]

\* what every request does to the membership of the collection as it is
C22_RemovalPerRequest ==
    /\ \A u \in Actors, ref \in Refs :
          LET r == delete_note_response(notes, u, ref)
          IN  /\ RemovedAreOwnedBy(notes, r.ns, u)
              /\ (r.note = NoNote \/ ~ActorIsOwner(r.note, u)) => r.ns = notes
              /\ Cardinality(DOMAIN notes \ DOMAIN r.ns) <= 1
    /\ \A u \in Actors :
          RemovedAreOwnedBy(notes, delete_account_response(notes, history, u).ns, u)
    /\ \A u \in Actors, ref \in Refs, data \in DeleteUpdateBodies :
          DOMAIN notes \subseteq DOMAIN update_note_response(notes, u, ref, data).ns
    /\ \A u \in Actors, ref \in Refs :
          /\ DOMAIN notes \subseteq DOMAIN get_note_response(notes, u, ref).ns
          /\ DOMAIN notes \subseteq DOMAIN get_published_note_response(notes, u, ref).ns
    /\ \A u \in Actors, data \in DeleteCreateBodies, shortid \in generate_shortid :
          DOMAIN notes \subseteq
              DOMAIN create_note_response(notes, next_oid, shortid, u, data).ns

\* C22: a delete request removes at most the note it resolves to, and only
\* when the actor is signed in and is that note's owner (whatever the
\* permission); the deletion of an account removes only notes of that user;
\* no other request removes a note; and no step removes a note without
\* owner_id.
C22_RemovedByOwnerOnly ==
    /\ []C22_RemovalPerRequest
    /\ [][\A o \in DOMAIN notes :
             o \notin DOMAIN notes' => notes[o].owner_id \in Users]_vars

\* a note has been deleted by its owner, and a note of hers that is open to
\* everyone is still there: the other user's request to delete it is
\* answered 403 and the anonymous one 401
C22_Witness ==
    /\ \E o \in 1..(next_oid - 1) : o \notin DOMAIN notes
    /\ \E o \in DOMAIN notes, u \in Users :
          /\ notes[o].owner_id \in Users \ {u}
          /\ notes[o].permission = "freely"
          /\ can_edit(notes, o, u)
          /\ delete_note_response(notes, u, notes[o].shortid).status = 403
          /\ delete_note_response(notes, None, notes[o].shortid).status = 401

====
